---- MODULE Spec2Model ----
(***************************************************************************)
(* The request pipeline of PhenylCore (run / execute / login / logout) and *)
(* the StandardUserDefinition strategy (authorize / wrapExecution).        *)
(*                                                                         *)
(* One request is one call of PhenylCore.run.  A request is carried by a   *)
(* process p; its steps are the stretches of code between two awaits.      *)
(* The collaborators handed to the constructor (session client, entity     *)
(* client, hooks) are the environment: each of their calls may answer or   *)
(* throw, and the model draws that outcome with \E.                        *)
(***************************************************************************)
EXTENDS Integers, Sequences, FiniteSets, TLC

\* ------------------------------------------------------------------ bounds
MaxSessions == 2      \* how many sessions the session client creates in a run
MaxConcSessions == 1  \* the same, where two callers run side by side

\* ------------------------------------------------------------- input sets
Procs == 1..2         \* the run calls that can be in flight together
Accounts == {"alice", "bob"}
PlainTexts == {"secret", "guess"}
EntityName == "user"

\* null / undefined session id
NullId == 0
SessionIds == 1..MaxSessions
\* one id the session client never issues
UnknownId == MaxSessions + 1

\* The fifteen keys execute looks at, in the order of its if statements.
VariantOrder ==
  << "find", "findOne", "get", "getByIds",
     "insert", "insertAndGet", "insertAndFetch",
     "update", "updateAndGet", "updateAndFetch", "delete",
     "runCustomQuery", "runCustomCommand", "login", "logout" >>

Variants == { VariantOrder[i] : i \in 1..Len(VariantOrder) }
EntityOps == { VariantOrder[i] : i \in 1..11 }
CustomOps == {"runCustomQuery", "runCustomCommand"}
DataOps == EntityOps \cup CustomOps
InsertOps == {"insert", "insertAndGet", "insertAndFetch"}
UpdateOps == {"update", "updateAndGet", "updateAndFetch"}
ReadOps == {"find", "findOne", "get", "getByIds"}

\* ---------------------------------------------------------------- values
\* A password value: the caller's text and how many times the one-way
\* transform has been applied to it.
Password(text, n) == [text |-> text, enc |-> n]
PlainPasswords == { Password(t, 0) : t \in PlainTexts }

\* A thrown Error / PhenylError: its kind ("" when it carries none) and message.
Err(type, message) == [type |-> type, message |-> message]

\* The parameters of one command variant.  password is {} when the payload
\* carries no password field, {pw} when it carries pw.
Params(account, password, sessionId) ==
  [entityName |-> EntityName, account |-> account,
   password |-> password, sessionId |-> sessionId]

\* An entity of the user collection, with or without a password field.
Entity(account, password) ==
  IF password = {}
    THEN [id |-> account, account |-> account]
    ELSE [id |-> account, account |-> account,
          password |-> CHOOSE pw \in password : TRUE]

HasPassword(e) == "password" \in DOMAIN e

SetToSeq(S) == IF S = {} THEN << >> ELSE << CHOOSE e \in S : TRUE >>

\* -------------------------------------------------- utilities (phenyl-utils)
GenericErrorType == "InternalServer"

\* createErrorResult(error, type): an error result {ok: 0, type, message}.
\* The given type wins; without one the kind the error already carries is
\* kept; an error without a kind becomes the generic kind.
createErrorResult(error, type) ==
  [ok |-> 0,
   type |-> IF type # "" THEN type
            ELSE IF error.type # "" THEN error.type
            ELSE GenericErrorType,
   message |-> error.message]

\* createServerError(message, type): the error object authorize throws.
createServerError(message, type) == Err(type, message)

\* What login reads from a hook result that has no error / resultType field.
UndefinedError == Err("", "undefined")

\* assertValidRequestData(reqData): throws InvalidRequest for a value that is
\* not a command envelope object, returns otherwise.
assertValidRequestData(reqData) ==
  IF reqData.isObject THEN {} ELSE { Err("InvalidRequest", "RequestData is invalid.") }

\* ------------------------------------------- the one-way password transform
\* this.encrypt: never the identity, and applying it twice differs from
\* applying it once.
encrypt(pw) == [pw EXCEPT !.enc = @ + 1]

\* ------------------------------------------------ Request Scrubber helpers
PasswordVariants == InsertOps \cup UpdateOps \cup {"login"}

\* encryptPasswordInRequestData(reqData, passwordPropName, encrypt)
encryptPasswordInRequestData(reqData) ==
  [reqData EXCEPT !.body =
     [k \in DOMAIN reqData.body |->
        IF k \in PasswordVariants
          THEN [reqData.body[k] EXCEPT !.password = { encrypt(pw) : pw \in @ }]
          ELSE reqData.body[k]]]

RemovePassword(e) == [f \in DOMAIN e \ {"password"} |-> e[f]]

ScrubPayload(payload) ==
  [f \in DOMAIN payload |->
     IF f = "entities"
       THEN [i \in 1..Len(payload.entities) |-> RemovePassword(payload.entities[i])]
     ELSE IF f \in {"entity", "user"} THEN RemovePassword(payload[f])
     ELSE payload[f]]

\* removePasswordFromResponseData(resData, passwordPropName): error responses
\* pass through unchanged.
removePasswordFromResponseData(resData) ==
  IF resData.key = "error" THEN resData
  ELSE [resData EXCEPT !.payload = ScrubPayload(@)]

\* The entities a response hands to the caller.
ResponseEntities(payload) ==
  (IF "entities" \in DOMAIN payload
     THEN { payload.entities[i] : i \in 1..Len(payload.entities) } ELSE {})
  \cup { payload[f] : f \in DOMAIN payload \cap {"entity", "user"} }

\* ------------------------------------------------ Session Store (external)
\* sessionClient.get(id): the session of that id, or null ({}).
SessionClientGet(store, id) == { s \in store : s.id = id }

\* sessionClient.create(preSession): the persisted session, under a fresh id.
SessionClientCreate(preSession, fresh) ==
  [id |-> fresh, expiredAt |-> preSession.expiredAt,
   entityName |-> preSession.entityName, userId |-> preSession.userId]

\* sessionClient.delete(id): true iff a record existed and was removed.
SessionClientDeleteResult(store, id) == SessionClientGet(store, id) # {}
SessionClientDeleteStore(store, id) == store \ SessionClientGet(store, id)

\* --------------------------------------------- Operation Backend (external)
Matching(store, account) == { e \in store : e.account = account }

NotOk(type, message) == [ok |-> 0, type |-> type, message |-> message]

\* The store after entityClient[op](params).
EntityClientStore(op, params, store) ==
  LET old == Matching(store, params.account) IN
  IF op \in InsertOps
    THEN IF old = {} THEN store \cup { Entity(params.account, params.password) }
         ELSE store
  ELSE IF op \in UpdateOps
    THEN IF old = {} \/ params.password = {} THEN store
         ELSE (store \ old) \cup { Entity(params.account, params.password) }
  ELSE IF op = "delete" THEN store \ old
  ELSE store

\* The result-or-error envelope entityClient[op](params) answers with.
EntityClientResult(op, params, store) ==
  LET old == Matching(store, params.account)
      new == Matching(EntityClientStore(op, params, store), params.account)
  IN
  IF op \in {"find", "getByIds"} THEN [ok |-> 1, entities |-> SetToSeq(old)]
  ELSE IF op \in {"findOne", "get"}
    THEN IF old = {} THEN NotOk("NotFound", "entity not found")
         ELSE [ok |-> 1, entity |-> CHOOSE e \in old : TRUE, versionId |-> "v1"]
  ELSE IF op \in InsertOps /\ old # {} THEN NotOk("BadRequest", "duplicate id")
  ELSE IF op \in UpdateOps /\ old = {} THEN NotOk("NotFound", "entity not found")
  ELSE IF op \in {"insert", "update"} THEN [ok |-> 1, n |-> 1]
  ELSE IF op \in {"insertAndGet", "updateAndGet"}
    THEN [ok |-> 1, entity |-> CHOOSE e \in new : TRUE, versionId |-> "v1"]
  ELSE IF op \in {"insertAndFetch", "updateAndFetch"}
    THEN [ok |-> 1, entities |-> SetToSeq(new)]
  ELSE [ok |-> 1, n |-> Cardinality(old)]

\* entityClient.findOne({entityName, where: {account, password}}), the query
\* authorize sends.
EntityClientFindOneWhere(store, where) ==
  LET hit == { e \in Matching(store, where.account) :
                 HasPassword(e) /\ e.password \in where.password }
  IN IF hit = {} THEN NotOk("NotFound", "entity not found")
     ELSE [ok |-> 1, entity |-> CHOOSE e \in hit : TRUE, versionId |-> "v1"]

\* An exception a collaborator throws: it carries no phenyl error kind.
\* The failure a backend reports for a reason of its own.
BackendFailure == NotOk("InternalServer", "backend failed")

CollaboratorError == Err("", "collaborator failed")

\* What a call hands back: a value, or a thrown / rejected error.
Return(v) == [threw |-> FALSE, value |-> v]
Throw(e) == [threw |-> TRUE, error |-> e]

\* ------------------------------------------------- StandardUserDefinition
OneYear == 60 * 60 * 24 * 365

\* constructor: this.ttl = params.ttl || 60 * 60 * 24 * 365
\* (ttlParam is {} when params.ttl is not given, {n} when it is n)
ConstructorTtl(ttlParam) ==
  IF ttlParam = {} \/ ttlParam = {0} THEN OneYear
  ELSE CHOOSE n \in ttlParam : TRUE

\* Instants are counted in whole seconds: Date.now() is 1000 * now, so that
\* new Date(Date.now() + ttl * 1000) is the instant now + ttl.
\* new Date(...).toISOString()
ToISOString(seconds) == [iso |-> seconds]

\* The where clause authorize sends to entityClient.findOne.
AuthorizeWhere(loginCommand) ==
  Params(loginCommand.account,
         { encrypt(pw) : pw \in loginCommand.password }, NullId)

\* A slip: the catch block rethrows what it caught (throw e).
authorizeRethrows(loginCommand, found, ttl, now) ==
  IF found.threw THEN Throw(found.error)
  ELSE IF "entity" \notin DOMAIN found.value
    THEN Throw(Err("", "Cannot read property 'id' of undefined"))
  ELSE LET user == found.value.entity
           preSession == [expiredAt |-> ToISOString(now + ttl),
                          entityName |-> loginCommand.entityName,
                          userId |-> user.id]
       IN Return([preSession |-> preSession, user |-> user,
                  versionId |-> found.value.versionId])

\* authorize(loginCommand, session), given what its findOne call handed back.
authorize(loginCommand, found, ttl, now) ==
  IF found.threw
    THEN Throw(createServerError(found.error.message, "Unauthorized"))
  ELSE IF "entity" \notin DOMAIN found.value
    \* user is undefined: user.id throws a TypeError inside the try
    THEN Throw(createServerError("Cannot read property 'id' of undefined",
                                 "Unauthorized"))
  ELSE LET user == found.value.entity
           expiredAt == ToISOString(now + ttl)
           preSession == [expiredAt |-> expiredAt,
                          entityName |-> loginCommand.entityName,
                          userId |-> user.id]
       IN Return([preSession |-> preSession, user |-> user,
                  versionId |-> found.value.versionId])

\* ------------------------------------------------------------- PhenylCore
\* result.ok as a condition: a missing ok field is undefined, hence falsy.
IsOk(r) == "ok" \in DOMAIN r /\ r.ok = 1

\* A slip: the backend's answer goes under the command's key whatever its ok.
WrapResultUnderKey(key, r) == [key |-> key, payload |-> r]

\* return result.ok ? { [key]: result } : { error: result }
WrapResult(key, r) ==
  IF IsOk(r) THEN [key |-> key, payload |-> r]
  ELSE [key |-> "error", payload |-> r]

ErrorEnvelope(errorResult) == [key |-> "error", payload |-> errorResult]

\* run's catch (e) { return { error: createErrorResult(e) } }
RunCatch(e) == ErrorEnvelope(createErrorResult(e, ""))

\* A slip: of several populated variants the last one in the order is taken.
DispatchLast(body) ==
  IF \E i \in 1..Len(VariantOrder) : VariantOrder[i] \in DOMAIN body
    THEN VariantOrder[CHOOSE i \in 1..Len(VariantOrder) :
                        /\ VariantOrder[i] \in DOMAIN body
                        /\ \A j \in (i + 1)..Len(VariantOrder) :
                             VariantOrder[j] \notin DOMAIN body]
    ELSE ""

\* The first key, in the order of execute's if statements, that reqData
\* has populated; "" when none is.
Dispatch(body) ==
  LET hits == { i \in 1..Len(VariantOrder) : VariantOrder[i] \in DOMAIN body }
  IN IF hits = {} THEN ""
     ELSE VariantOrder[CHOOSE i \in hits : \A j \in hits : i <= j]

\* A copy-and-paste slip: the getByIds branch calls entityClient.get.
EntityClientMethodSlip(key) == IF key = "getByIds" THEN "get" ELSE key

\* The entityClient method execute calls for a populated data key.
EntityClientMethod(key) == key

\* A slip: the ACL answer is read but never acted on.
AclRejectsNever(isAccessible) == FALSE

\* if (!isAccessible) return { error: Unauthorized }
AclRejects(isAccessible) == ~isAccessible
AclError ==
  ErrorEnvelope(createErrorResult(Err("", "Authorization Required."), "Unauthorized"))

\* A slip: the condition is inverted.
ValidationRejectsInverted(isValid) == isValid

\* A slip: the validation hook's answer is not looked at.
ValidationRejectsNever(isValid) == FALSE

\* if (!isValid) return { error: BadRequest }
ValidationRejects(isValid) == ~isValid
ValidationError ==
  ErrorEnvelope(createErrorResult(Err("", "Params are not valid."), "BadRequest"))

\* A slip: the fall-through reports the kind of the stage before it.
ExecuteFallThroughBadRequest ==
  ErrorEnvelope(createErrorResult(Err("", "Invalid method name."), "BadRequest"))

\* the last line of execute
ExecuteFallThrough ==
  ErrorEnvelope(createErrorResult(Err("", "Invalid method name."), "NotFound"))

\* A slip: the answer of sessionClient.delete is not looked at.
LogoutResultUnchecked(deleted) == [ok |-> 1]

\* A slip: logout deletes the session of the caller, not the one named.
LogoutTargetOwn(logoutCommand, session) ==
  IF session = {} THEN NullId ELSE (CHOOSE s \in session : TRUE).id

\* A slip: an ownership check, only the caller's own session can be named.
LogoutTargetIfOwner(logoutCommand, session) ==
  IF \E s \in session : s.id = logoutCommand.sessionId
    THEN logoutCommand.sessionId
    ELSE NullId

\* const { sessionId } = logoutCommand: the id logout hands to
\* sessionClient.delete; the session argument is not looked at.
LogoutTarget(logoutCommand, session) == logoutCommand.sessionId

\* A slip: the answer of sessionClient.delete is read the wrong way round.
LogoutResultInverted(deleted) ==
  IF deleted
    THEN createErrorResult(Err("", "sessionId not found"), "BadRequest")
    ELSE [ok |-> 1]

\* logout, after sessionClient.delete(sessionId) answered `deleted`
LogoutResult(deleted) ==
  IF ~deleted
    THEN createErrorResult(Err("", "sessionId not found"), "BadRequest")
    ELSE [ok |-> 1]

\* A slip: the resultType the hook names is not handed on.
LoginFailureKindDropped(hookResult) ==
  IF ~IsOk(hookResult)
    THEN { createErrorResult(
             IF "error" \in DOMAIN hookResult THEN hookResult.error
                                              ELSE UndefinedError,
             "") }
    ELSE {}

\* login, after the authentication hook answered without throwing: the error
\* result it returns at once, or {} when it goes on to create the session.
LoginFailure(hookResult) ==
  IF ~IsOk(hookResult)
    THEN { createErrorResult(
             IF "error" \in DOMAIN hookResult THEN hookResult.error
                                              ELSE UndefinedError,
             IF "resultType" \in DOMAIN hookResult THEN hookResult.resultType
                                                   ELSE "") }
    ELSE {}

\* A slip: the pre-session is handed back in place of the created session.
LoginSuccessPreSession(hookResult, newSession) ==
  [ok |-> 1, user |-> hookResult.user, session |-> hookResult.preSession]

\* login's success value
LoginSuccess(hookResult, newSession) ==
  [ok |-> 1, user |-> hookResult.user, session |-> newSession]

\* A slip: execution is called with reqData, not with newReqData.
WrapExecutionRequestAsGiven(rd) == rd

\* wrapExecution: the request handed to execution, the response handed back
WrapExecutionRequest(rd) == encryptPasswordInRequestData(rd)
WrapExecutionResponse(rs) == removePasswordFromResponseData(rs)

\* ------------------------------------------------------------ the requests
EmptyBody == [k \in {} |-> Params("", {}, NullId)]
NoRequest == [isObject |-> FALSE, body |-> EmptyBody]

\* Entities are written with no password field or with this one; a login
\* tries any of PlainPasswords.
WrittenPasswords == { Password("secret", 0) }
OptionalPasswords == { {} } \cup { {pw} : pw \in WrittenPasswords }

\* The parameters a caller can put under key k.
ParamsFor(k) ==
  IF k \in InsertOps \cup UpdateOps
    THEN { Params(a, pw, NullId) : a \in Accounts, pw \in OptionalPasswords }
  ELSE IF k = "login"
    THEN { Params(a, {pw}, NullId) : a \in Accounts, pw \in PlainPasswords }
  ELSE IF k = "logout"
    THEN { Params("", {}, id) : id \in SessionIds \cup {UnknownId} }
  ELSE { Params(a, {}, NullId) : a \in Accounts }

\* The envelopes with exactly the keys K populated.
Bodies(K) == { b \in [K -> UNION { ParamsFor(k) : k \in K }] :
                 \A k \in K : b[k] \in ParamsFor(k) }

\* The sets of at most n keys.
RECURSIVE KeySets(_)
KeySets(n) ==
  IF n = 0 THEN { {} }
  ELSE KeySets(n - 1) \cup { K \cup {k} : K \in KeySets(n - 1), k \in Variants }

\* Every request a caller sends: a value that is no envelope object, and the
\* envelopes with at most n keys populated.
RequestDatas(n) ==
  { NoRequest } \cup
  { [isObject |-> TRUE, body |-> b] : b \in UNION { Bodies(K) : K \in KeySets(n) } }

SingleRequests == RequestDatas(1)

\* Envelopes with several keys populated carry one fixed parameter value per
\* key; which keys are populated is what varies: none, one, any two, or all.
MultiParams(k) ==
  IF k \in InsertOps \cup UpdateOps
    THEN Params("alice", WrittenPasswords, NullId)
  ELSE IF k = "login" THEN Params("alice", { Password("secret", 0) }, NullId)
  ELSE IF k = "logout" THEN Params("", {}, 1)
  ELSE Params("alice", {}, NullId)

MultiKeySets == KeySets(2) \cup { Variants }

MultiRequests ==
  { NoRequest } \cup
  { [isObject |-> TRUE, body |-> [k \in K |-> MultiParams(k)]] : K \in MultiKeySets }

\* A few requests of every kind, for callers that run side by side and for
\* configurations with a ttl: no envelope, an empty one, a query, a custom
\* query, a login, and a logout of the first session and of an unknown one.
FewRequests ==
  { NoRequest } \cup
  { [isObject |-> TRUE, body |-> b] :
      b \in { EmptyBody } \cup
             { [k \in {key} |-> Params("alice", {}, NullId)] :
                 key \in {"find", "runCustomQuery"} } \cup
             { [k \in {"login"} |-> Params("alice", { Password("secret", 0) }, NullId)] } \cup
             { [k \in {"logout"} |-> Params("", {}, id)] : id \in {1, UnknownId} } }

RequestsOf(kind) ==
  IF kind = "single" THEN SingleRequests
  ELSE IF kind = "multi" THEN MultiRequests
  ELSE FewRequests

\* ------------------------------------------------------------------ state
VARIABLES
  cfg,         \* what the constructors were given: executionWrapper,
               \* authenticationHandler, ttl; and the clock reading
  active,      \* the processes that issue run calls
  sessions,    \* the Session Store's records
  nextSid,     \* how many sessions the Session Store has created
  users,       \* the Operation Backend's user collection
  entry,       \* how each call came in: through PhenylCore.run, or as a
               \* call of StandardUserDefinition.wrapExecution itself
  pc,          \* where each call stands
  reqData,     \* run's argument reqData
  sessionId,   \* run's argument sessionId
  session,     \* run's local session: {} for null, {s} otherwise
  newReqData,  \* the reqData the wrapper handed to execute
  calls,       \* the collaborator and stage calls of this request, in order
  seen,        \* what the backend received in this request, and answered
  authResult,  \* what the authentication hook handed back to login
  given,       \* the session each hook and controller was handed, in order
  resData,     \* what execute resolved to
  result       \* what run resolved to: {} until then

vars == << cfg, active, sessions, nextSid, users, entry, pc, reqData, sessionId,
           session, newReqData, calls, seen, authResult, given, resData,
           result >>

store == << sessions, nextSid, users >>

Call(fn, out) == [fn |-> fn, out |-> out]
Called(p, fn) == \E i \in 1..Len(calls[p]) : calls[p][i].fn = fn
Answered(p, fn, out) == \E i \in 1..Len(calls[p]) : calls[p][i] = Call(fn, out)
CountCalls(p, fn) == Cardinality({ i \in 1..Len(calls[p]) : calls[p][i].fn = fn })

\* The name a data operation's backend call is logged under.
CallName(key) ==
  IF key = "runCustomQuery" THEN "customQueryHandler"
  ELSE IF key = "runCustomCommand" THEN "customCommandHandler"
  ELSE "entityClient." \o key

BackendNames == { CallName(k) : k \in DataOps }
BackendCalls(p) == { i \in 1..Len(calls[p]) : calls[p][i].fn \in BackendNames }

InFlight(p) == pc[p] \notin {"idle", "resolved", "rejected"}

\* Sessions that requests in flight may still create.
LoginsInFlight ==
  Cardinality({ q \in Procs : InFlight(q) /\ "login" \in DOMAIN reqData[q].body })

InitialUsers ==
  { {}, { Entity("alice", { encrypt(Password("secret", 0)) }) } }

InitWith(wrappers, auths, ttls, nows, requests, maxSessions, procs) ==
  /\ cfg \in [wrapper : wrappers, auth : auths, ttl : ttls, now : nows,
               requests : requests, maxSessions : {maxSessions}]
  /\ active = procs
  /\ sessions = {}
  /\ nextSid = 0
  /\ users \in InitialUsers
  /\ entry = [p \in Procs |-> "none"]
  /\ pc = [p \in Procs |-> "idle"]
  /\ reqData = [p \in Procs |-> NoRequest]
  /\ sessionId = [p \in Procs |-> NullId]
  /\ session = [p \in Procs |-> {}]
  /\ newReqData = [p \in Procs |-> NoRequest]
  /\ calls = [p \in Procs |-> << >>]
  /\ seen = [p \in Procs |-> << >>]
  /\ authResult = [p \in Procs |-> {}]
  /\ given = [p \in Procs |-> << >>]
  /\ resData = [p \in Procs |-> {}]
  /\ result = [p \in Procs |-> {}]

Init ==
  InitWith({"passthrough", "standard"}, {"generic", "standard"}, { {} }, {0},
           {"single"}, MaxSessions, {1})

\* ---------------------------------------------------------- PhenylCore.run
\* A caller calls run(reqData, sessionId).
Run(p) ==
  /\ p \in active
  /\ pc[p] = "idle"
  /\ \E rd \in RequestsOf(cfg.requests),
        \* null, or an id the Session Store has issued (any other id
        \* resolves to null as well)
        sid \in {NullId} \cup 1..nextSid :
       /\ "login" \in DOMAIN rd.body => nextSid + LoginsInFlight < cfg.maxSessions
       /\ reqData' = [reqData EXCEPT ![p] = rd]
       /\ sessionId' = [sessionId EXCEPT ![p] = sid]
  /\ pc' = [pc EXCEPT ![p] = "sessionGet"]
  /\ entry' = [entry EXCEPT ![p] = "run"]
  /\ UNCHANGED << cfg, active, store, session, newReqData, calls, seen,
                  authResult, resData, result,
                  given >>

\* Resolve / reject run with what it has.
Resolve(p, envelope) ==
  /\ result' = [result EXCEPT ![p] = { envelope }]
  /\ pc' = [pc EXCEPT ![p] = "resolved"]

Reject(p) ==
  /\ result' = result
  /\ pc' = [pc EXCEPT ![p] = "rejected"]

LogAll(p, cs) == calls' = [calls EXCEPT ![p] = @ \o cs]
Log(p, fn, out) == LogAll(p, << Call(fn, out) >>)
\* The callees fns are handed run's local session, one after the other.
Give(p, fns) ==
  given' = [given EXCEPT ![p] =
              @ \o [i \in 1..Len(fns) |-> [fn |-> fns[i], session |-> session[p]]]]
See(p, params, answer) ==
  seen' = [seen EXCEPT ![p] = Append(@, [params |-> params, answer |-> answer])]

\* const session = await this.clients.sessionClient.get(sessionId)
\* (outside the try block)
SessionGet(p) ==
  /\ pc[p] = "sessionGet"
  /\ \/ /\ session' = [session EXCEPT ![p] = SessionClientGet(sessions, sessionId[p])]
        /\ Log(p, "sessionClient.get", "return")
        /\ pc' = [pc EXCEPT ![p] = "assert"]
        /\ result' = result
     \/ /\ Log(p, "sessionClient.get", "throw")
        /\ Reject(p)
        /\ session' = session
  /\ UNCHANGED << cfg, active, store, reqData, sessionId, newReqData, seen,
                  authResult, resData,
                  given, entry >>

\* assertValidRequestData(reqData), inside the try block
AssertValid(p) ==
  /\ pc[p] = "assert"
  /\ LET thrown == assertValidRequestData(reqData[p]) IN
     IF thrown = {}
       THEN /\ Log(p, "assertValidRequestData", "return")
            /\ pc' = [pc EXCEPT ![p] = "acl"]
            /\ result' = result
       ELSE /\ Log(p, "assertValidRequestData", "throw")
            /\ Resolve(p, RunCatch(CHOOSE e \in thrown : TRUE))
  /\ UNCHANGED << cfg, active, store, reqData, sessionId, session, newReqData,
                  seen, authResult, resData,
                  given, entry >>

\* const isAccessible = await this.aclHandler(reqData, session, this.clients)
Acl(p) ==
  /\ pc[p] = "acl"
  /\ Give(p, << "aclHandler" >>)
  /\ \/ \E isAccessible \in BOOLEAN :
          /\ Log(p, "aclHandler", IF isAccessible THEN "true" ELSE "false")
          /\ IF AclRejects(isAccessible)
               THEN Resolve(p, AclError)
               ELSE /\ pc' = [pc EXCEPT ![p] = "validate"]
                    /\ result' = result
     \/ /\ Log(p, "aclHandler", "throw")
        /\ Resolve(p, RunCatch(CollaboratorError))
  /\ UNCHANGED << cfg, active, store, reqData, sessionId, session, newReqData,
                  seen, authResult, resData, entry >>

\* const isValid = await this.validationHandler(reqData, session, this.clients)
Validate(p) ==
  /\ pc[p] = "validate"
  /\ Give(p, << "validationHandler" >>)
  /\ \/ \E isValid \in BOOLEAN :
          /\ Log(p, "validationHandler", IF isValid THEN "true" ELSE "false")
          /\ IF ValidationRejects(isValid)
               THEN Resolve(p, ValidationError)
               ELSE /\ pc' = [pc EXCEPT ![p] = "wrap"]
                    /\ result' = result
     \/ /\ Log(p, "validationHandler", "throw")
        /\ Resolve(p, RunCatch(CollaboratorError))
  /\ UNCHANGED << cfg, active, store, reqData, sessionId, session, newReqData,
                  seen, authResult, resData, entry >>

\* return this.executionWrapper(reqData, session, this.clients,
\*                              this.execute.bind(this))
\* The call is inside the try block but its promise is not awaited there.
\* "standard" is StandardUserDefinition.wrapExecution installed as the hook:
\* run hands it four arguments, wrapExecution(reqData, session, execution)
\* takes three, so its `execution` is this.clients; `await execution(...)`
\* throws a TypeError inside the async method, the promise rejects, and
\* execute is never called.
\* "passthrough" is a hook that calls execution(reqData, session) as it is,
\* or throws before it returns a promise, or returns a promise that rejects.
WrapEnter(p) ==
  /\ pc[p] = "wrap"
  /\ IF cfg.wrapper = "standard"
       THEN /\ Log(p, "executionWrapper", "reject")
            /\ Give(p, << "executionWrapper" >>)
            /\ Reject(p)
            /\ newReqData' = newReqData
       ELSE \/ /\ newReqData' = [newReqData EXCEPT ![p] = reqData[p]]
               /\ LogAll(p, << Call("executionWrapper", "call"), Call("execute", "call") >>)
               /\ Give(p, << "executionWrapper", "execute" >>)
               /\ pc' = [pc EXCEPT ![p] = "execute"]
               /\ result' = result
            \/ /\ Log(p, "executionWrapper", "throw")
               /\ Resolve(p, RunCatch(CollaboratorError))
               /\ Give(p, << "executionWrapper" >>)
               /\ newReqData' = newReqData
            \/ /\ Log(p, "executionWrapper", "reject")
               /\ Reject(p)
               /\ Give(p, << "executionWrapper" >>)
               /\ newReqData' = newReqData
  /\ UNCHANGED << cfg, active, store, reqData, sessionId, session, seen,
                  authResult, resData, entry >>

\* ------------------------------------------------------ PhenylCore.execute
Finish(p, envelope) ==
  /\ resData' = [resData EXCEPT ![p] = { envelope }]
  /\ pc' = [pc EXCEPT ![p] = "unwrap"]
  /\ result' = result

\* if (reqData.<key> != null) { const result = await entityClient.<key>(...)
\*   return result.ok ? { <key>: result } : { error: result } }
\* The entity client answers from its collection, or reports a failure of
\* its own and leaves the collection alone.  A throw of the entity client
\* rejects execute, hence the wrapper's promise.
ExecuteEntity(p) ==
  /\ pc[p] = "execute"
  /\ LET key == Dispatch(newReqData[p].body) IN
     /\ key \in EntityOps
     /\ LET params == newReqData[p].body[key]
            method == EntityClientMethod(key)
            r == EntityClientResult(method, params, users)
        IN \/ /\ users' = EntityClientStore(method, params, users)
              /\ See(p, params, Return(r))
              /\ Log(p, CallName(method), IF IsOk(r) THEN "ok" ELSE "notok")
              /\ Finish(p, WrapResult(key, r))
           \/ /\ users' = users
              /\ See(p, params, Return(BackendFailure))
              /\ Log(p, CallName(method), "notok")
              /\ Finish(p, WrapResult(key, BackendFailure))
           \/ /\ See(p, params, Throw(CollaboratorError))
              /\ Log(p, CallName(method), "throw")
              /\ Reject(p)
              /\ UNCHANGED << users, resData >>
  /\ UNCHANGED << cfg, active, sessions, nextSid, reqData, sessionId, session,
                  newReqData, authResult,
                  given, entry >>

\* runCustomQuery / runCustomCommand: the handler also receives the session.
ExecuteCustom(p) ==
  /\ pc[p] = "execute"
  /\ LET key == Dispatch(newReqData[p].body) IN
     /\ key \in CustomOps
     /\ Give(p, << CallName(key) >>)
     /\ LET params == newReqData[p].body[key] IN
        \/ \E r \in { [ok |-> 1, result |-> params.account],
                       NotOk("BadRequest", "custom handler failed") } :
             /\ See(p, params, Return(r))
             /\ Log(p, CallName(key), IF IsOk(r) THEN "ok" ELSE "notok")
             /\ Finish(p, WrapResult(key, r))
        \/ /\ See(p, params, Throw(CollaboratorError))
           /\ Log(p, CallName(key), "throw")
           /\ Reject(p)
           /\ resData' = resData
  /\ UNCHANGED << cfg, active, store, reqData, sessionId, session, newReqData,
                  authResult, entry >>

\* return { error: createErrorResult(new Error('Invalid method name.'), 'NotFound') }
ExecuteNotFound(p) ==
  /\ pc[p] = "execute"
  /\ Dispatch(newReqData[p].body) = ""
  /\ Finish(p, ExecuteFallThrough)
  /\ UNCHANGED << cfg, active, store, reqData, sessionId, session, newReqData,
                  calls, seen, authResult,
                  given, entry >>

\* -------------------------------------------------------- PhenylCore.login
\* The kinds a failing authentication hook names in resultType.
HookFailureKinds == {"Unauthorized", "Forbidden"}

\* An authentication hook other than authorize, as the hook contract has it:
\* it reports success with ok: 1, reports failure with ok: 0, or throws.
GenericHookOutcomes(loginCommand, now) ==
  LET user == Entity(loginCommand.account, {}) IN
  { Return([ok |-> 1,
            preSession |-> [expiredAt |-> ToISOString(now + OneYear),
                            entityName |-> loginCommand.entityName,
                            userId |-> user.id],
            user |-> user]),
    Throw(CollaboratorError) } \cup
  { Return([ok |-> 0, error |-> Err("", "login failed"), resultType |-> type]) :
      type \in HookFailureKinds }

\* What entityClient.findOne hands back to authorize.
FindOneOutcomes(where) ==
  { Return(EntityClientFindOneWhere(users, where)), Throw(CollaboratorError) }

OutcomeLabel(o) ==
  IF o.threw THEN "throw" ELSE IF IsOk(o.value) THEN "ok" ELSE "notok"

\* login, from the answer `hook` of
\* this.authenticationHandler(loginCommand, session, this.clients) on.
LoginContinue(p, hook) ==
  /\ authResult' = [authResult EXCEPT ![p] = { hook }]
  /\ IF hook.threw
       \* catch (e) { return createErrorResult(e) }
       THEN Finish(p, WrapResult("login", createErrorResult(hook.error, "")))
     ELSE IF LoginFailure(hook.value) # {}
       THEN Finish(p, WrapResult("login",
                                 CHOOSE e \in LoginFailure(hook.value) : TRUE))
     ELSE /\ pc' = [pc EXCEPT ![p] = "create"]
          /\ UNCHANGED << resData, result >>

\* if (reqData.login != null) { const result = await this.login(...) ... }
\* login, up to the answer of the authentication hook.  With authorize as
\* the hook, the hook's answer follows from what its findOne call hands back.
ExecuteLogin(p) ==
  /\ pc[p] = "execute"
  /\ Dispatch(newReqData[p].body) = "login"
  /\ Give(p, << "login", "authenticationHandler" >>)
  /\ LET loginCommand == newReqData[p].body["login"] IN
     IF cfg.auth = "standard"
       THEN \E found \in FindOneOutcomes(AuthorizeWhere(loginCommand)) :
              LET hook == authorize(loginCommand, found,
                                    ConstructorTtl(cfg.ttl), cfg.now)
              IN /\ See(p, AuthorizeWhere(loginCommand), found)
                 /\ LogAll(p, << Call("login", "call"),
                                 Call("entityClient.findOne", OutcomeLabel(found)),
                                 Call("authenticationHandler", OutcomeLabel(hook)) >>)
                 /\ LoginContinue(p, hook)
       ELSE \E hook \in GenericHookOutcomes(loginCommand, cfg.now) :
              /\ seen' = seen
              /\ LogAll(p, << Call("login", "call"),
                              Call("authenticationHandler", OutcomeLabel(hook)) >>)
              /\ LoginContinue(p, hook)
  /\ UNCHANGED << cfg, active, store, reqData, sessionId, session, newReqData,
                  entry >>

\* const newSession = await this.clients.sessionClient.create(result.preSession)
\* return { ok: 1, user: result.user, session: newSession }
LoginCreate(p) ==
  /\ pc[p] = "create"
  /\ LET hookResult == (CHOOSE r \in authResult[p] : TRUE).value
         newSession == SessionClientCreate(hookResult.preSession, nextSid + 1)
     IN \/ /\ sessions' = sessions \cup { newSession }
           /\ nextSid' = nextSid + 1
           /\ Log(p, "sessionClient.create", "return")
           /\ Finish(p, WrapResult("login", LoginSuccess(hookResult, newSession)))
        \/ /\ Log(p, "sessionClient.create", "throw")
           /\ Finish(p, WrapResult("login", createErrorResult(CollaboratorError, "")))
           /\ UNCHANGED << sessions, nextSid >>
  /\ UNCHANGED << cfg, active, users, reqData, sessionId, session, newReqData,
                  seen, authResult,
                  given, entry >>

\* ------------------------------------------------------- PhenylCore.logout
\* if (reqData.logout != null) { const result = await this.logout(...) ... }
ExecuteLogout(p) ==
  /\ pc[p] = "execute"
  /\ Dispatch(newReqData[p].body) = "logout"
  /\ Give(p, << "logout" >>)
  /\ LET id == LogoutTarget(newReqData[p].body["logout"], session[p])
         deleted == SessionClientDeleteResult(sessions, id)
     IN \/ /\ sessions' = SessionClientDeleteStore(sessions, id)
           /\ LogAll(p, << Call("logout", "call"),
                           Call("sessionClient.delete",
                                IF deleted THEN "true" ELSE "false") >>)
           /\ Finish(p, WrapResult("logout", LogoutResult(deleted)))
        \/ /\ sessions' = sessions
           /\ LogAll(p, << Call("logout", "call"),
                           Call("sessionClient.delete", "throw") >>)
           /\ Finish(p, WrapResult("logout", createErrorResult(CollaboratorError, "")))
  /\ UNCHANGED << cfg, active, nextSid, users, reqData, sessionId, session,
                  newReqData, seen, authResult, entry >>

\* ------------------------------------- StandardUserDefinition.wrapExecution
\* A caller calls wrapExecution(reqData, session, execution) itself, with
\* PhenylCore's bound execute as the execution and any session, or none, as
\* the session: const newReqData = encryptPasswordInRequestData(...);
\* const resData = await execution(newReqData, session)
wrapExecution(p) ==
  /\ p \in active
  /\ pc[p] = "idle"
  /\ cfg.wrapper = "standard"
  /\ \E rd \in { r \in RequestsOf(cfg.requests) : r.isObject },
        s \in { {} } \cup { {x} : x \in sessions } :
       /\ "login" \in DOMAIN rd.body => nextSid + LoginsInFlight < cfg.maxSessions
       /\ reqData' = [reqData EXCEPT ![p] = rd]
       /\ session' = [session EXCEPT ![p] = s]
       /\ newReqData' = [newReqData EXCEPT ![p] = WrapExecutionRequest(rd)]
       /\ given' = [given EXCEPT ![p] = << [fn |-> "wrapExecution", session |-> s],
                                            [fn |-> "execute", session |-> s] >>]
  /\ entry' = [entry EXCEPT ![p] = "wrapExecution"]
  /\ LogAll(p, << Call("wrapExecution", "call"), Call("execute", "call") >>)
  /\ pc' = [pc EXCEPT ![p] = "execute"]
  /\ UNCHANGED << cfg, active, store, sessionId, seen, authResult, resData,
                  result >>

\* ------------------------------------------------- the wrapper's way back
\* wrapExecution after its await: removePasswordFromResponseData, return.
\* The passthrough hook hands execute's envelope back as it is.  run
\* resolves to what the wrapper's promise resolves to.
WrapExit(p) ==
  /\ pc[p] = "unwrap"
  /\ LET envelope == CHOOSE r \in resData[p] : TRUE IN
     Resolve(p, IF entry[p] = "wrapExecution" THEN WrapExecutionResponse(envelope)
                ELSE envelope)
  /\ UNCHANGED << cfg, active, store, reqData, sessionId, session, newReqData,
                  calls, seen, authResult, resData,
                  given, entry >>

\* The caller has its answer; the process is free for the next call.
Reset(p) ==
  /\ pc[p] \in {"resolved", "rejected"}
  /\ pc' = [pc EXCEPT ![p] = "idle"]
  /\ entry' = [entry EXCEPT ![p] = "none"]
  /\ reqData' = [reqData EXCEPT ![p] = NoRequest]
  /\ sessionId' = [sessionId EXCEPT ![p] = NullId]
  /\ session' = [session EXCEPT ![p] = {}]
  /\ newReqData' = [newReqData EXCEPT ![p] = NoRequest]
  /\ calls' = [calls EXCEPT ![p] = << >>]
  /\ seen' = [seen EXCEPT ![p] = << >>]
  /\ authResult' = [authResult EXCEPT ![p] = {}]
  /\ given' = [given EXCEPT ![p] = << >>]
  /\ resData' = [resData EXCEPT ![p] = {}]
  /\ result' = [result EXCEPT ![p] = {}]
  /\ UNCHANGED << cfg, active, store >>

Next ==
  \E p \in Procs :
    \/ Run(p)
    \/ wrapExecution(p)
    \/ SessionGet(p)
    \/ AssertValid(p)
    \/ Acl(p)
    \/ Validate(p)
    \/ WrapEnter(p)
    \/ ExecuteEntity(p)
    \/ ExecuteCustom(p)
    \/ ExecuteLogin(p)
    \/ LoginCreate(p)
    \/ ExecuteLogout(p)
    \/ ExecuteNotFound(p)
    \/ WrapExit(p)
    \/ Reset(p)

Spec == Init /\ [][Next]_vars

\* One caller whose envelopes have several keys populated.
InitMulti ==
  InitWith({"passthrough", "standard"}, {"generic", "standard"}, { {} }, {0},
           {"multi"}, MaxSessions, {1})
SpecMulti == InitMulti /\ [][Next]_vars

\* Two callers whose run calls interleave at every await.
InitConc ==
  InitWith({"passthrough", "standard"}, {"generic"}, { {} }, {0}, {"few"},
           MaxConcSessions, Procs)
SpecConc == InitConc /\ [][Next]_vars

\* One caller, StandardUserDefinition constructed with and without a ttl,
\* the clock read at several times.
ConfiguredTtls == { {}, {0}, {1}, {2} }
ClockReadings == {0, 5}
InitTtl ==
  InitWith({"passthrough", "standard"}, {"generic", "standard"}, ConfiguredTtls,
           ClockReadings, {"few"}, MaxSessions, {1})
SpecTtl == InitTtl /\ [][Next]_vars

\* ================================================================ claims
Resolved(p) == pc[p] = "resolved"
TheResult(p) == CHOOSE r \in result[p] : TRUE
CallNames(p) == { calls[p][i].fn : i \in 1..Len(calls[p]) }
WellFormed(p) == reqData[p].isObject

\* C1: every call of run resolves to a result envelope and never rejects,
\* whichever collaborator fails (Session Store get, shape validation, ACL
\* hook, validation hook, execution wrapper, backend method, login, logout).
C1_RunNeverRejects ==
  \A p \in Procs : entry[p] = "run" => pc[p] # "rejected"

\* C2: for a well-formed envelope, once the ACL hook has returned false the
\* request has called nothing but Session Store get, shape validation and the
\* ACL hook, and run has resolved to {error: Unauthorized("Authorization
\* Required.")}.
C2_AclFalseStopsRequest ==
  \A p \in Procs :
    (WellFormed(p) /\ Answered(p, "aclHandler", "false")) =>
      /\ CallNames(p) = {"sessionClient.get", "assertValidRequestData", "aclHandler"}
      /\ Len(calls[p]) = 3
      /\ seen[p] = << >>
      /\ Resolved(p)
      /\ result[p] = { [key |-> "error",
                        payload |-> [ok |-> 0, type |-> "Unauthorized",
                                     message |-> "Authorization Required."]] }

C2_Witness ==
  \E p \in Procs :
    /\ Resolved(p)
    /\ Answered(p, "aclHandler", "false")
    /\ DOMAIN reqData[p].body = {"insert"}
    /\ session[p] # {}

\* C3: for a well-formed envelope, once the ACL hook has returned true and
\* the validation hook false, the request has called neither the execution
\* wrapper nor the dispatcher nor any backend method, and run has resolved to
\* {error: BadRequest("Params are not valid.")}.
C3_ValidationFalseStopsRequest ==
  \A p \in Procs :
    (WellFormed(p) /\ Answered(p, "aclHandler", "true")
                   /\ Answered(p, "validationHandler", "false")) =>
      /\ CallNames(p) = {"sessionClient.get", "assertValidRequestData",
                         "aclHandler", "validationHandler"}
      /\ Len(calls[p]) = 4
      /\ seen[p] = << >>
      /\ Resolved(p)
      /\ result[p] = { [key |-> "error",
                        payload |-> [ok |-> 0, type |-> "BadRequest",
                                     message |-> "Params are not valid."]] }

C3_Witness ==
  \E p \in Procs :
    /\ Resolved(p)
    /\ Answered(p, "aclHandler", "true")
    /\ Answered(p, "validationHandler", "false")
    /\ DOMAIN reqData[p].body = {"updateAndGet"}

\* C4: for an envelope with exactly one data-operation key k, when ACL and
\* validation pass and the wrapper calls the dispatcher once, the request
\* calls the backend method (or custom handler) named k exactly once with the
\* parameters the dispatcher was handed, calls no other backend method, and
\* on success run resolves to the backend's result under key k.
C4_DataOperationDispatch ==
  \A p \in Procs : \A k \in DataOps :
    (/\ WellFormed(p)
     /\ DOMAIN reqData[p].body = {k}
     /\ Answered(p, "aclHandler", "true")
     /\ Answered(p, "validationHandler", "true")
     /\ CountCalls(p, "execute") = 1
     /\ pc[p] \in {"unwrap", "resolved", "rejected"}) =>
      /\ Cardinality(BackendCalls(p)) = 1
      /\ \A i \in BackendCalls(p) :
           calls[p][i].fn = (IF k = "runCustomQuery" THEN "customQueryHandler"
                             ELSE IF k = "runCustomCommand" THEN "customCommandHandler"
                             ELSE "entityClient." \o k)
      /\ Len(seen[p]) = 1
      /\ seen[p][1].params = newReqData[p].body[k]
      /\ entry[p] = "run"
      /\ newReqData[p] = reqData[p]
      /\ (Resolved(p) /\ ~seen[p][1].answer.threw /\ IsOk(seen[p][1].answer.value)) =>
           result[p] = { [key |-> k, payload |-> seen[p][1].answer.value] }

C4_Witness ==
  \E p \in Procs :
    /\ Resolved(p)
    /\ DOMAIN reqData[p].body = {"getByIds"}
    /\ TheResult(p).key = "getByIds"
    /\ Len(TheResult(p).payload.entities) = 1
    /\ cfg.wrapper = "passthrough"

Dispatched(p) == Dispatch(newReqData[p].body)
LogoutId(p) == newReqData[p].body["logout"].sessionId
HookAnswer(p) == CHOOSE h \in authResult[p] : TRUE

\* The login half of C5, a predicate of the state a step leads to.
C5_LoginCreatesSession ==
  \A p \in Procs :
    (/\ pc[p] \in {"unwrap", "resolved"}
     /\ Called(p, "execute")
     /\ Dispatched(p) = "login"
     /\ Answered(p, "authenticationHandler", "ok")
     /\ Answered(p, "sessionClient.create", "return")) =>
      /\ CountCalls(p, "sessionClient.create") = 1
      /\ \E s \in sessions :
           /\ [expiredAt |-> s.expiredAt, entityName |-> s.entityName,
               userId |-> s.userId] = HookAnswer(p).value.preSession
           /\ s.userId = HookAnswer(p).value.user.id
           /\ resData[p] = { [key |-> "login",
                              payload |-> [ok |-> 1, user |-> HookAnswer(p).value.user,
                                           session |-> s]] }
      /\ Resolved(p) => result[p] = resData[p]

\* The logout half of C5, a predicate of a step: logout's call of
\* sessionClient.delete on an id that is in the store.
C5_LogoutDeletesSession ==
  \A p \in Procs :
    (/\ pc[p] = "execute"
     /\ Dispatched(p) = "logout"
     /\ SessionClientGet(sessions, LogoutId(p)) # {}
     /\ pc'[p] = "unwrap"
     /\ ~Answered(p, "sessionClient.delete", "throw")') =>
      /\ resData'[p] = { [key |-> "logout", payload |-> [ok |-> 1]] }
      /\ SessionClientGet(sessions', LogoutId(p)) = {}

\* C5: login / logout round trip.  With an authentication hook that
\* succeeds, login calls Session Store create exactly once with the hook's
\* pre-session and returns {ok: 1, user, session}, session.userId being
\* user.id; a logout naming the id of a session in the store returns {ok: 1}
\* and the id is absent from the store afterwards.
C5_LoginLogoutRoundTrip ==
  [][ /\ C5_LoginCreatesSession'
      /\ C5_LogoutDeletesSession
      /\ \A p \in Procs :
           (Resolved(p)' /\ Dispatched(p)' = "logout"
              /\ Answered(p, "sessionClient.delete", "true")') =>
             /\ result'[p] = { [key |-> "logout", payload |-> [ok |-> 1]] }
             /\ SessionClientGet(sessions', LogoutId(p)') = {} ]_vars

\* A session created by a login has been logged out again.
C5_Witness ==
  \E p \in Procs :
    /\ Resolved(p)
    /\ Dispatched(p) = "logout"
    /\ LogoutId(p) \in 1..nextSid
    /\ result[p] = { [key |-> "logout", payload |-> [ok |-> 1]] }
    /\ SessionClientGet(sessions, LogoutId(p)) = {}

\* C6: with StandardUserDefinition.authorize as the authentication hook and
\* a findOne that returns the record matching the account and the transformed
\* password, login takes the hook's answer for a success: it creates a
\* session from the pre-session {expiredAt, entityName, userId} and returns
\* {ok: 1, user: the matched record, session}.
C6_StandardLoginSucceeds ==
  \A p \in Procs :
    (/\ cfg.auth = "standard"
     /\ pc[p] \in {"unwrap", "resolved"}
     /\ Dispatched(p) = "login"
     /\ Answered(p, "entityClient.findOne", "ok")
     /\ ~Answered(p, "sessionClient.create", "throw")) =>
      /\ CountCalls(p, "sessionClient.create") = 1
      /\ \E s \in sessions :
           /\ s.userId = seen[p][1].answer.value.entity.id
           /\ resData[p] = { [key |-> "login",
                              payload |-> [ok |-> 1,
                                           user |-> seen[p][1].answer.value.entity,
                                           session |-> s]] }

SessionIdNotFound ==
  [key |-> "error",
   payload |-> [ok |-> 0, type |-> "BadRequest", message |-> "sessionId not found"]]

\* C7: a logout naming a session id that is not in the Session Store (delete
\* reports false) yields the error BadRequest("sessionId not found"), which
\* run returns under the error key and not under logout, and the Session
\* Store is left as it was; so it is for an id that was logged out before.
C7_LogoutUnknownSession ==
  [][ \A p \in Procs :
        /\ (/\ pc[p] = "execute"
            /\ Dispatched(p) = "logout"
            /\ SessionClientGet(sessions, LogoutId(p)) = {}
            /\ pc'[p] = "unwrap"
            /\ ~Answered(p, "sessionClient.delete", "throw")') =>
             /\ Answered(p, "sessionClient.delete", "false")'
             /\ resData'[p] = { SessionIdNotFound }
             /\ sessions' = sessions /\ nextSid' = nextSid
        /\ (/\ pc[p] = "unwrap"
            /\ Dispatched(p) = "logout"
            /\ Answered(p, "sessionClient.delete", "false")
            /\ Resolved(p)') =>
             /\ result'[p] = { SessionIdNotFound }
             /\ sessions' = sessions /\ nextSid' = nextSid ]_vars

\* The second logout of a session that a login created.
C7_Witness ==
  \E p \in Procs :
    /\ Resolved(p)
    /\ Dispatched(p) = "logout"
    /\ LogoutId(p) \in 1..nextSid
    /\ Answered(p, "sessionClient.delete", "false")
    /\ result[p] = { SessionIdNotFound }

InvalidMethodName ==
  [key |-> "error",
   payload |-> [ok |-> 0, type |-> "NotFound", message |-> "Invalid method name."]]

ZeroVariants(p) == WellFormed(p) /\ DOMAIN reqData[p].body = {}

\* C8 as stated: for every command envelope with zero recognized variants
\* populated, run returns {error: NotFound("Invalid method name.")}; no
\* earlier stage turns it into another error kind.
C8_ZeroVariantsNotFound ==
  \A p \in Procs :
    (Resolved(p) /\ ZeroVariants(p)) => result[p] = { InvalidMethodName }

\* C8 as amended: for every command envelope with zero recognized variants
\* populated, when the ACL hook and the validation hook return true and the
\* execution wrapper calls the dispatcher, no backend method, handler or
\* Session Store create / delete is called and run returns
\* {error: NotFound("Invalid method name.")}.
C8_ZeroVariantsNotFoundOnceDispatched ==
  \A p \in Procs :
    (/\ ZeroVariants(p)
     /\ Answered(p, "aclHandler", "true")
     /\ Answered(p, "validationHandler", "true")
     /\ Called(p, "execute")
     /\ pc[p] # "execute") =>
      /\ pc[p] \in {"unwrap", "resolved"}
      /\ resData[p] = { InvalidMethodName }
      /\ Resolved(p) => result[p] = { InvalidMethodName }
      /\ CallNames(p) = {"sessionClient.get", "assertValidRequestData", "aclHandler",
                         "validationHandler", "executionWrapper", "execute"}

C8_Witness ==
  \E p \in Procs :
    /\ Resolved(p)
    /\ ZeroVariants(p)
    /\ Called(p, "execute")
    /\ result[p] = { InvalidMethodName }

WriteOps == InsertOps \cup UpdateOps

\* The request has exactly the key k populated, and carries a password there.
WritesPassword(p, k) ==
  /\ WellFormed(p)
  /\ DOMAIN reqData[p].body = {k}
  /\ reqData[p].body[k].password # {}

\* C9: through the Standard User execution wrapper, called with PhenylCore's
\* execute as its execution, an insert-family or update-family request that
\* carries the plaintext password pw reaches the
\* Operation Backend with transform(pw) and never with pw, the backend stores
\* the transformed value, and a successful response has no password field on
\* any entity.
C9_PasswordScrubbing ==
  \A p \in Procs :
    entry[p] = "wrapExecution" =>
      /\ \A k \in WriteOps :
           WritesPassword(p, k) =>
             LET pw == CHOOSE x \in reqData[p].body[k].password : TRUE
                 transformed == [text |-> pw.text, enc |-> pw.enc + 1]
             IN /\ transformed # pw
                /\ \A i \in 1..Len(seen[p]) :
                     /\ seen[p][i].params.password = { transformed }
                     /\ pw \notin seen[p][i].params.password
                /\ (/\ pc[p] \in {"unwrap", "resolved"}
                    /\ Called(p, "execute")
                    /\ (CHOOSE r \in resData[p] : TRUE).key = k) =>
                     \A e \in Matching(users, reqData[p].body[k].account) :
                       HasPassword(e) /\ e.password = transformed
      /\ (Resolved(p) /\ TheResult(p).key # "error") =>
           \A e \in ResponseEntities(TheResult(p).payload) : ~HasPassword(e)

\* An insertAndGet with a password went through the wrapper: the backend
\* answered with the stored entity, password field included, and the caller
\* got the entity without it.
C9_Witness ==
  \E p \in Procs :
    /\ entry[p] = "wrapExecution"
    /\ WritesPassword(p, "insertAndGet")
    /\ Resolved(p)
    /\ TheResult(p).key = "insertAndGet"
    /\ HasPassword(seen[p][1].answer.value.entity)
    /\ ~HasPassword(TheResult(p).payload.entity)

\* C10: with authorize as the authentication hook, whenever the backend
\* findOne finds no matching record or fails (throws, or answers not-ok),
\* authorize hands back no pre-session and fails with an error of kind
\* Unauthorized, no session is created, and the login reports
\* {error: Unauthorized}, not a backend or generic error.
C10_VerificationFailureUnauthorized ==
  \A p \in Procs :
    (/\ cfg.auth = "standard"
     /\ Called(p, "login")
     /\ \/ Answered(p, "entityClient.findOne", "notok")
        \/ Answered(p, "entityClient.findOne", "throw")) =>
      /\ HookAnswer(p).threw
      /\ HookAnswer(p).error.type = "Unauthorized"
      /\ seen[p][1].answer.threw =>
           HookAnswer(p).error.message = seen[p][1].answer.error.message
      /\ ~Called(p, "sessionClient.create")
      /\ pc[p] \in {"unwrap", "resolved"}
      /\ \E e \in resData[p] :
           e.key = "error" /\ e.payload.ok = 0 /\ e.payload.type = "Unauthorized"
      /\ Resolved(p) => result[p] = resData[p]

\* The store holds alice with transform("secret") only; a login as alice with
\* the password "guess" was turned down.
C10_Witness ==
  \E p \in Procs :
    /\ cfg.auth = "standard"
    /\ Resolved(p)
    /\ Dispatched(p) = "login"
    /\ reqData[p].body["login"].account = "alice"
    /\ reqData[p].body["login"].password = { [text |-> "guess", enc |-> 0] }
    /\ users = { [id |-> "alice", account |-> "alice",
                  password |-> [text |-> "secret", enc |-> 1]] }
    /\ Answered(p, "entityClient.findOne", "notok")
    /\ TheResult(p).key = "error"
    /\ TheResult(p).payload.type = "Unauthorized"

\* The backend answered the request of p, without throwing, with a result
\* whose ok is false.
BackendReportedFailure(p) ==
  /\ Dispatched(p) \in DataOps
  /\ Len(seen[p]) = 1
  /\ ~seen[p][1].answer.threw
  /\ ~IsOk(seen[p][1].answer.value)

\* C11: when the backend answers a dispatched data operation with a failure
\* (ok false), execute resolves to {error: that failure} with the failure as
\* the backend gave it, never under the command's own key; run resolves to
\* the same envelope, also through the Standard User wrapper; and the
\* backend was called once, not a second time.
C11_BackendFailureVerbatim ==
  \A p \in Procs :
    (pc[p] \in {"unwrap", "resolved"} /\ BackendReportedFailure(p)) =>
      /\ resData[p] = { [key |-> "error", payload |-> seen[p][1].answer.value] }
      /\ Resolved(p) => result[p] = resData[p]
      /\ Cardinality(BackendCalls(p)) = 1
      /\ calls[p][Len(calls[p])] = Call(CallName(Dispatched(p)), "notok")

C11_Witness ==
  \E p \in Procs :
    /\ Resolved(p)
    /\ BackendReportedFailure(p)
    /\ entry[p] = "run"
    /\ Dispatched(p) = "insertAndGet"
    /\ seen[p][1].answer.value = BackendFailure
    /\ TheResult(p) = [key |-> "error", payload |-> BackendFailure]

\* The authentication hook answered the login of p with a failure: it
\* returned a result with ok: 0, or it threw.
HookReturnedFailure(p) ==
  /\ authResult[p] # {}
  /\ ~HookAnswer(p).threw
  /\ "ok" \in DOMAIN HookAnswer(p).value
  /\ HookAnswer(p).value.ok = 0
HookFailed(p) ==
  \/ HookReturnedFailure(p)
  \/ authResult[p] # {} /\ HookAnswer(p).threw

\* What login hands back for the failure the hook returned: the hook's
\* error under the kind the hook named.
C12_FailureResult(p) ==
  [ok |-> 0, type |-> HookAnswer(p).value.resultType,
   message |-> HookAnswer(p).value.error.message]

\* C12: when the authentication hook reports failure, the login step leaves
\* the Session Store and the user collection as they were, sessionClient.create
\* is never called for that request, and for a failure the hook returned the
\* login resolves to {error: e} where e carries the hook's error message under
\* the kind the hook named.
C12_FailedLoginCreatesNoSession ==
  [][ \A p \in Procs :
        /\ (HookFailed(p) => ~Called(p, "sessionClient.create"))'
        /\ (pc[p] = "execute" /\ Dispatched(p) = "login") =>
             /\ HookFailed(p)' =>
                  /\ UNCHANGED store
                  /\ pc'[p] = "unwrap"
                  /\ (CHOOSE e \in resData'[p] : TRUE).key = "error"
             /\ HookReturnedFailure(p)' =>
                  resData'[p] = { ErrorEnvelope(C12_FailureResult(p)') } ]_vars

C12_Witness ==
  \E p \in Procs :
    /\ Resolved(p)
    /\ Dispatched(p) = "login"
    /\ HookReturnedFailure(p)
    /\ HookAnswer(p).value.resultType = "Forbidden"
    /\ TheResult(p) = [key |-> "error",
                       payload |-> [ok |-> 0, type |-> "Forbidden",
                                    message |-> "login failed"]]
    /\ sessions # {}
    /\ ~Called(p, "sessionClient.create")

\* The stages and collaborators behind shape validation.
BehindShapeValidation ==
  { "aclHandler", "validationHandler", "executionWrapper", "execute", "login",
    "logout", "authenticationHandler", "entityClient.findOne",
    "sessionClient.create", "sessionClient.delete" } \cup BackendNames

\* C13: every run call with a structurally malformed envelope ends with an
\* error of kind InvalidRequest, raised by the shape validator, and nothing
\* behind shape validation (ACL hook, validation hook, wrapper, dispatcher,
\* backend) was invoked.
C13_MalformedInvalidRequest ==
  \A p \in Procs :
    (~WellFormed(p) /\ pc[p] \in {"resolved", "rejected"}) =>
      /\ Resolved(p)
      /\ TheResult(p).key = "error"
      /\ TheResult(p).payload.type = "InvalidRequest"
      /\ CallNames(p) \cap BehindShapeValidation = {}

\* What the dispatcher reaches: the controllers, their collaborators and the
\* backend.
BehindExecute ==
  { "login", "logout", "authenticationHandler", "entityClient.findOne",
    "sessionClient.create", "sessionClient.delete" } \cup BackendNames

\* The callees that are handed a session.
SessionTakers ==
  { "aclHandler", "validationHandler", "executionWrapper", "execute", "login",
    "logout", "authenticationHandler", "customQueryHandler",
    "customCommandHandler" }

\* C14: within one call of run the stages run one after the other and each gates
\* the next: sessionClient.get is the first call and happens once; shape
\* validation comes second, after get returned; the ACL hook third, after
\* shape validation passed; the validation hook fourth, after the ACL hook
\* answered true; the wrapper fifth, after the validation hook answered
\* true; the dispatcher sixth, called by the wrapper; controllers and
\* backend only behind the dispatcher.  The session obtained from get is
\* the one every hook, custom handler and controller is handed.
C14_StagesInOrder ==
  \A p \in Procs :
    entry[p] # "wrapExecution" =>
    LET c == calls[p] IN
    /\ \A i \in 1..Len(c) :
         /\ (i = 1) <=> (c[i].fn = "sessionClient.get")
         /\ c[i].fn = "assertValidRequestData" =>
              i = 2 /\ c[1] = Call("sessionClient.get", "return")
         /\ c[i].fn = "aclHandler" =>
              i = 3 /\ c[2] = Call("assertValidRequestData", "return")
         /\ c[i].fn = "validationHandler" =>
              i = 4 /\ c[3] = Call("aclHandler", "true")
         /\ c[i].fn = "executionWrapper" =>
              i = 5 /\ c[4] = Call("validationHandler", "true")
         /\ c[i].fn = "execute" =>
              i = 6 /\ c[5] = Call("executionWrapper", "call")
         /\ c[i].fn \in BehindExecute =>
              i > 6 /\ c[6] = Call("execute", "call")
    /\ session[p] # {} =>
         /\ Answered(p, "sessionClient.get", "return")
         /\ \A s \in session[p] : s.id = sessionId[p]
    /\ { given[p][j].fn : j \in 1..Len(given[p]) } = CallNames(p) \cap SessionTakers
    /\ \A j \in 1..Len(given[p]) : given[p][j].session = session[p]

C14_Witness ==
  \E p \in Procs :
    /\ Resolved(p)
    /\ session[p] # {}
    /\ Len(calls[p]) = 7
    /\ calls[p][7] = Call("customCommandHandler", "ok")
    /\ Len(given[p]) = 5
    /\ given[p][5] = [fn |-> "customCommandHandler", session |-> session[p]]

\* The populated variants of p's envelope, and the one that comes first in
\* the dispatcher's order.
Populated(p) == DOMAIN reqData[p].body
FirstPopulated(p) ==
  VariantOrder[CHOOSE i \in 1..Len(VariantOrder) :
                 /\ VariantOrder[i] \in Populated(p)
                 /\ \A j \in 1..(i - 1) : VariantOrder[j] \notin Populated(p)]

\* The call the dispatcher makes for variant k.
OperationName(k) ==
  IF k \in {"login", "logout"} THEN k ELSE CallName(k)
\* Where in the call log of p the dispatcher was called.
ExecuteAt(p) == CHOOSE i \in 1..Len(calls[p]) : calls[p][i].fn = "execute"

\* The calls login and logout make on their own behalf.
ControllerCalls ==
  { "authenticationHandler", "entityClient.findOne", "sessionClient.create",
    "sessionClient.delete" }

\* C15: for an envelope with several variants populated that reaches the
\* dispatcher, the dispatcher handles the variant that comes first in its
\* fixed order and no other: exactly one backend / controller operation is
\* invoked, right after the dispatcher was called; it is the one of the
\* first populated variant (what follows it in
\* the call log are that login's or logout's own calls), and the result
\* comes back under that variant's key or under error.
C15_FirstPopulatedVariantOnly ==
  \A p \in Procs :
    (Cardinality(Populated(p)) >= 2 /\ pc[p] \in {"create", "unwrap", "resolved"}
       /\ Called(p, "execute")) =>
      /\ Len(calls[p]) >= ExecuteAt(p) + 1
      /\ calls[p][ExecuteAt(p) + 1].fn = OperationName(FirstPopulated(p))
      /\ \A i \in (ExecuteAt(p) + 2)..Len(calls[p]) :
           /\ calls[p][ExecuteAt(p) + 1].fn \in {"login", "logout"}
           /\ calls[p][i].fn \in ControllerCalls
      /\ \A e \in resData[p] : e.key \in { FirstPopulated(p), "error" }
      /\ Resolved(p) => TheResult(p).key \in { FirstPopulated(p), "error" }

C15_Witness ==
  \E p \in Procs :
    /\ Resolved(p)
    /\ Populated(p) = Variants
    /\ TheResult(p).key = "find"
    /\ Cardinality(BackendCalls(p)) = 1
    /\ ~Called(p, "login")
    /\ ~Called(p, "logout")

\* A step in which the login of p succeeds: sessionClient.create returned
\* and the login resolves to {ok: 1, user, session}.
LoginSucceeds(p) ==
  /\ pc[p] = "create"
  /\ Dispatched(p) = "login"
  /\ Answered(p, "sessionClient.create", "return")'
  /\ \E e \in resData'[p] : e.key = "login" /\ e.payload.ok = 1
                            /\ sessions' = sessions \cup { e.payload.session }

\* A step in which the logout of p succeeds.
LogoutSucceeds(p) ==
  /\ pc[p] = "execute"
  /\ Dispatched(p) = "logout"
  /\ resData'[p] = { [key |-> "logout", payload |-> [ok |-> 1]] }

\* C16: the set of active sessions changes by one session at a time and in
\* two ways only.  A session is added only by a login that succeeds; its id
\* is fresh and the sessions there were stay as they were.  A session goes
\* only by a logout that names its id and succeeds.  So no data operation,
\* custom operation, rejected request, failed login or failed logout changes
\* the set, and ids are not issued again.
C16_SessionLifecycle ==
  [][ LET added == sessions' \ sessions
          removed == sessions \ sessions'
      IN /\ Cardinality(added) + Cardinality(removed) <= 1
         /\ nextSid' >= nextSid
         /\ \A s \in added :
              /\ s.id = nextSid' /\ nextSid' = nextSid + 1
              /\ \A t \in sessions : t.id # s.id
              /\ \E p \in Procs : LoginSucceeds(p)
         /\ \A s \in removed :
              \E p \in Procs : LogoutSucceeds(p) /\ LogoutId(p) = s.id
         /\ \A p \in Procs :
              (pc'[p] # pc[p] /\ ~LoginSucceeds(p) /\ ~LogoutSucceeds(p)) =>
                UNCHANGED << sessions, nextSid >> ]_vars

\* Two sessions were created and the first was logged out by a caller that
\* holds the second.
C16_Witness ==
  \E p \in Procs :
    /\ Resolved(p)
    /\ Dispatched(p) = "logout"
    /\ TheResult(p) = [key |-> "logout", payload |-> [ok |-> 1]]
    /\ LogoutId(p) = 1
    /\ nextSid = 2
    /\ \E s \in sessions : s.id = 2 /\ session[p] = {s}

\* The plaintext password the caller of p put into the login credentials.
LoginPlaintext(p) == CHOOSE pw \in reqData[p].body["login"].password : TRUE

\* C17: every request processed through StandardUserDefinition.wrapExecution
\* has the dispatcher invoked exactly once, whether wrapExecution is
\* PhenylCore's execution wrapper or is called with execute as its
\* execution; and with authorize as the authentication hook, the password in
\* the filter that a login's findOne receives is transform(p) for the
\* plaintext p of the credentials, not transform(transform(p)), so when the
\* user collection holds the account with transform(p), as an insert of p
\* through the wrapper leaves it, and findOne answers, the login with p
\* succeeds.
C17_WrapperLoginTransformsOnce ==
  \A p \in Procs :
    /\ (cfg.wrapper = "standard" /\ Called(p, "executionWrapper")) =>
         CountCalls(p, "execute") = 1
    /\ entry[p] = "wrapExecution" => CountCalls(p, "execute") = 1
    /\ (/\ entry[p] = "wrapExecution"
        /\ cfg.auth = "standard"
        /\ Dispatched(p) = "login"
        /\ Called(p, "entityClient.findOne")) =>
         /\ seen[p][1].params.password = { encrypt(LoginPlaintext(p)) }
         /\ (/\ Resolved(p)
             /\ Answered(p, "entityClient.findOne", "ok")
             /\ \E u \in users :
                  /\ u.account = reqData[p].body["login"].account
                  /\ HasPassword(u)
                  /\ u.password = encrypt(LoginPlaintext(p))) =>
              TheResult(p).key = "login"

\* p has logged out the session it came with: its request named the id of
\* its own session, which the Session Store held when the request began, and
\* sessionClient.delete answered.
LoggedOutOwnSession(p) ==
  /\ Resolved(p)
  /\ Dispatched(p) = "logout"
  /\ session[p] # {}
  /\ LogoutId(p) = sessionId[p]
  /\ ~Answered(p, "sessionClient.delete", "throw")

\* C18: two logout requests for the same active session id, interleaved in
\* any order over a Session Store whose delete is atomic: exactly one of them
\* resolves to {logout: {ok: 1}}, the one whose delete removed the record,
\* the other to {error: BadRequest("sessionId not found")}, and the id is
\* absent from the store afterwards.
C18_ConcurrentLogout ==
  \A p, q \in Procs :
    (p # q /\ LoggedOutOwnSession(p) /\ LoggedOutOwnSession(q)
       /\ LogoutId(p) = LogoutId(q)) =>
      /\ { TheResult(p), TheResult(q) } =
           { [key |-> "logout", payload |-> [ok |-> 1]], SessionIdNotFound }
      /\ TheResult(p) # TheResult(q)
      /\ Answered(p, "sessionClient.delete", "true")
           <=> TheResult(p) = [key |-> "logout", payload |-> [ok |-> 1]]
      /\ SessionClientGet(sessions, LogoutId(p)) = {}

C18_Witness ==
  /\ LoggedOutOwnSession(1)
  /\ LoggedOutOwnSession(2)
  /\ LogoutId(1) = LogoutId(2)
  /\ TheResult(1) = SessionIdNotFound
  /\ TheResult(2) = [key |-> "logout", payload |-> [ok |-> 1]]

\* C19: logout does not depend on the session of the caller.  What a logout
\* step whose delete answers does to the Session Store, and what it resolves
\* to, is determined by the store and the sessionId of the logout command
\* alone: the record of that id is removed and the result is {ok: 1} when
\* there was one, BadRequest("sessionId not found") otherwise, whether the
\* caller came with no session, with the named session or with another one.
C19_LogoutIgnoresCallerSession ==
  [][ \A p \in Procs :
        (/\ pc[p] = "execute"
         /\ Dispatched(p) = "logout"
         /\ pc'[p] # pc[p]
         /\ ~Answered(p, "sessionClient.delete", "throw")') =>
          /\ sessions' = { s \in sessions : s.id # LogoutId(p) }
          /\ resData'[p] =
               { IF \E s \in sessions : s.id = LogoutId(p)
                   THEN [key |-> "logout", payload |-> [ok |-> 1]]
                   ELSE SessionIdNotFound } ]_vars

\* A caller without a session has logged out the session of a user.
C19_Witness ==
  \E p \in Procs :
    /\ Resolved(p)
    /\ Dispatched(p) = "logout"
    /\ sessionId[p] = NullId
    /\ session[p] = {}
    /\ Answered(p, "sessionClient.delete", "true")
    /\ TheResult(p) = [key |-> "logout", payload |-> [ok |-> 1]]
    /\ sessions = {}
    /\ nextSid = 1

\* C20: with StandardUserDefinition.authorize as the authentication hook,
\* the pre-session of a verified login expires at now + ttl seconds for every
\* configured ttl, 0 included; the one-year default is used only when no ttl
\* was configured.
C20_ExpiryIsNowPlusTtl ==
  \A p \in Procs :
    (cfg.auth = "standard" /\ authResult[p] # {} /\ ~HookAnswer(p).threw) =>
      HookAnswer(p).value.preSession.expiredAt =
        ToISOString(cfg.now + (IF cfg.ttl = {} THEN OneYear
                               ELSE CHOOSE t \in cfg.ttl : TRUE))

====
